---- MODULE Spec2Model ----
(***************************************************************************)
(* Model of the GenAI report generator backend: the token service          *)
(* (auth.py), the content provider with its local fallback (ai_service.py) *)
(* and the request handlers of main.py over the users table (models.py)    *)
(* and the reports directory.                                              *)
(*                                                                         *)
(* Python strings are sequences of one-character strings.  An optional     *)
(* value is a sequence of length at most one: None is <<>> and a present   *)
(* value v is <<v>>.  The result of a call that may raise is a record      *)
(* [exc, val]: exc = "" when the call returned val, the exception's name   *)
(* otherwise.                                                              *)
(***************************************************************************)
EXTENDS Integers, Sequences, FiniteSets, TLC

VARIABLES svc, users, files, now, issued, handles, procs, last

vars == <<svc, users, files, now, issued, handles, procs, last>>

None == <<>>
Some(v) == <<v>>

Ret(v) == [exc |-> "", val |-> v]
Raise(e) == [exc |-> e, val |-> None]

----------------------------------------------------------------------------
(* Bounds of the model.                                                    *)

\* longest provider response text that is enumerated
MaxLen == 2

\* how many times the clock advances (by half a token lifetime each time)
MaxTicks == 3

\* how many times the clock advances while reports are generated
MaxReportTicks == 1

\* how many issued tokens the clients keep
MaxIssued == 2

\* how many artifacts the reports directory may hold
MaxFiles == 1

\* how many signup requests run concurrently
NProcs == 3

----------------------------------------------------------------------------
(* Strings.                                                                *)

Whitespace == {" ", "\n"}

RECURSIVE lstrip(_)
lstrip(s) ==
    IF s # <<>> /\ Head(s) \in Whitespace THEN lstrip(Tail(s)) ELSE s

RECURSIVE rstrip(_)
rstrip(s) ==
    IF s # <<>> /\ s[Len(s)] \in Whitespace
    THEN rstrip(SubSeq(s, 1, Len(s) - 1))
    ELSE s

\* str.strip(): leading and trailing whitespace removed
strip(s) == rstrip(lstrip(s))

StringsUpTo(alphabet, n) == UNION {[1..k -> alphabet] : k \in 0..n}

----------------------------------------------------------------------------
(* ai_service.py: AIService.                                               *)

\* os.getenv("OPENAI_API_KEY"): unset, set to the empty string, or set
ApiKeys == {None, Some(""), Some("sk-key")}

\* truthiness of an optional str
Truthy(opt) == opt # None /\ opt[1] # ""

\* AIService.__init__: the client exists only when the key is truthy and
\* openai.OpenAI(...) did not raise
AIServiceInit ==
    {[openai_api_key |-> k, client |-> c] :
        k \in ApiKeys, c \in {None, Some("client")}}
    \ {s \in [openai_api_key : ApiKeys, client : {None, Some("client")}] :
        s.client # None /\ ~Truthy(s.openai_api_key)}

\* the fixed text of the fallback template between the places where the
\* topic is interpolated, one opaque character per piece
DemoSegment(i) == <<"seg" \o ToString(i)>>

NDemoTopics == 10

RECURSIVE DemoFrom(_, _)
DemoFrom(topic, i) ==
    IF i > NDemoTopics THEN <<>>
    ELSE IF i = NDemoTopics THEN DemoSegment(i)
    ELSE DemoSegment(i) \o topic \o DemoFrom(topic, i + 1)

\* AIService._generate_demo_content
_generate_demo_content(topic) == DemoFrom(topic, 0)

\* what self.client.chat.completions.create(...) does
ContentChars == {" ", "\n", "x"}

ProviderOutcomes ==
    {[kind |-> k, content |-> <<>>] :
        k \in {"raises", "no_choices", "content_none"}}
    \cup {[kind |-> "content_str", content |-> c] :
            c \in StringsUpTo(ContentChars, MaxLen)}

\* AIService._generate_with_openai
_generate_with_openai(self, topic, outcome) ==
    IF self.client = None THEN Ret(_generate_demo_content(topic))
    ELSE IF outcome.kind \in {"raises", "no_choices"}
         \* the exception (of create, or IndexError of choices[0]) is caught
         THEN Ret(_generate_demo_content(topic))
    ELSE IF outcome.kind = "content_none" \/ outcome.content = <<>>
         \* "if content" is false
         THEN Ret(_generate_demo_content(topic))
    ELSE Ret(strip(outcome.content))

\* the same without the two layers of except: a failure of the provider
\* reaches the caller
generate_report_content_propagating(self, topic, outcome) ==
    IF ~Truthy(self.openai_api_key) THEN Ret(_generate_demo_content(topic))
    ELSE IF self.client = None THEN Raise("AttributeError")
    ELSE IF outcome.kind = "raises" THEN Raise("APIError")
    ELSE IF outcome.kind = "no_choices" THEN Raise("IndexError")
    ELSE _generate_with_openai(self, topic, outcome)

\* AIService.generate_report_content
generate_report_content(self, topic, outcome) ==
    IF Truthy(self.openai_api_key)
    THEN LET r == _generate_with_openai(self, topic, outcome)
         IN  IF r.exc # "" THEN Ret(_generate_demo_content(topic)) ELSE r
    ELSE Ret(_generate_demo_content(topic))

Topics == {<<>>, <<"Q">>, <<"Q", "C">>}

----------------------------------------------------------------------------
(* auth.py: AuthHandler.                                                   *)

ACCESS_TOKEN_EXPIRE_MINUTES == 30

\* the process's signing secret, and any other secret
SECRET_KEY == "SECRET_KEY"
Keys == {SECRET_KEY, "other-secret"}

Digits == <<"0", "1", "2", "3", "4", "5", "6", "7", "8", "9">>
DigitChars == {Digits[i] : i \in 1..10}
DigitValue(c) == CHOOSE d \in 0..9 : Digits[d + 1] = c

RECURSIVE NatToStr(_)
NatToStr(n) ==
    IF n < 10 THEN <<Digits[n + 1]>>
    ELSE NatToStr(n \div 10) \o <<Digits[(n % 10) + 1]>>

\* str(int)
IntToStr(n) == IF n < 0 THEN <<"-">> \o NatToStr(-n) ELSE NatToStr(n)

RECURSIVE DigitsToNat(_)
DigitsToNat(s) ==
    IF s = <<>> THEN 0
    ELSE 10 * DigitsToNat(SubSeq(s, 1, Len(s) - 1)) + DigitValue(s[Len(s)])

IsDigits(s) == s # <<>> /\ \A i \in 1..Len(s) : s[i] \in DigitChars

\* int(str): surrounding whitespace and one sign are accepted, anything
\* else that is not a run of decimal digits raises ValueError
StrToInt(s) ==
    LET t == strip(s)
        signed == t # <<>> /\ Head(t) \in {"+", "-"}
        body == IF signed THEN Tail(t) ELSE t
    IN  IF ~IsDigits(body) THEN Raise("ValueError")
        ELSE IF signed /\ Head(t) = "-" THEN Ret(-DigitsToNat(body))
        ELSE Ret(DigitsToNat(body))

\* a string that is no JWT at all
MalformedToken ==
    [wellformed |-> FALSE, key |-> "", exp |-> 0, iat |-> 0, sub |-> None]

\* AuthHandler.encode_token at time t (in minutes)
encode_token(user_id, t) ==
    [wellformed |-> TRUE, key |-> SECRET_KEY,
     exp |-> t + ACCESS_TOKEN_EXPIRE_MINUTES,
     iat |-> t, sub |-> Some(IntToStr(user_id))]

\* the same with the expiry left unverified
decode_token_ignoring_exp(token, t, strict) ==
    IF ~token.wellformed \/ token.key # SECRET_KEY THEN Ret(None)
    ELSE IF token.sub = None THEN Raise("KeyError")
    ELSE LET n == StrToInt(token.sub[1])
         IN  IF n.exc # "" THEN n ELSE Ret(Some(n.val))

\* AuthHandler.decode_token at time t.  jwt.decode raises DecodeError for a
\* malformed token, InvalidSignatureError for a wrong key and
\* ExpiredSignatureError after exp, all of them InvalidTokenError; whether
\* the very instant exp already counts as expired depends on the library
\* release (strict).  payload['sub'] and int(...) are outside what is caught.
decode_token(token, t, strict) ==
    IF ~token.wellformed \/ token.key # SECRET_KEY THEN Ret(None)
    ELSE IF token.exp < t \/ (strict /\ token.exp = t) THEN Ret(None)
    ELSE IF token.sub = None THEN Raise("KeyError")
    ELSE LET n == StrToInt(token.sub[1])
         IN  IF n.exc # "" THEN n ELSE Ret(Some(n.val))

\* the instants the clock takes
HalfLife == ACCESS_TOKEN_EXPIRE_MINUTES \div 2
MaxClock == MaxTicks * HalfLife
ClockValues == {k * HalfLife : k \in 0..MaxTicks}

\* the 'sub' fields a presented token may carry: absent, decimal, padded,
\* and not a number
Subs == {None, Some(<<"1">>), Some(<<"2">>), Some(<<" ", "1">>),
         Some(<<"a">>)}

\* every token a client may present: no JWT, or a JWT over any of the
\* payloads above, signed with the process's secret or another one
TokenInputs ==
    {MalformedToken}
    \cup {[wellformed |-> TRUE, key |-> k,
           exp |-> t0 + ACCESS_TOKEN_EXPIRE_MINUTES, iat |-> t0, sub |-> s] :
            k \in Keys, t0 \in ClockValues, s \in Subs}

----------------------------------------------------------------------------
(* models.py: the users table, and the session's INSERT + COMMIT.          *)

Salts == {"salt"}

\* AuthHandler.get_password_hash: a salted one-way hash
get_password_hash(password, salt) == <<"bcrypt", salt, password>>

\* a comparison that accepts every password
verify_password_any(plain_password, hashed_password) == TRUE

\* AuthHandler.verify_password
verify_password(plain_password, hashed_password) ==
    hashed_password = get_password_hash(plain_password, hashed_password[2])

\* db.query(User).filter(User.email == email).first()
first_by_email(db, email) ==
    IF \E i \in 1..Len(db) : db[i].email = email
    THEN Some(db[CHOOSE i \in 1..Len(db) : db[i].email = email])
    ELSE None

\* db.query(User).filter(User.id == user_id).first()
first_by_id(db, user_id) ==
    IF \E i \in 1..Len(db) : db[i].id = user_id
    THEN Some(db[CHOOSE i \in 1..Len(db) : db[i].id = user_id])
    ELSE None

\* the same on a table without unique columns
commit_unchecked(db, email, username, hashed_password) ==
    Ret(Append(db, [id |-> Len(db) + 1, email |-> email,
                    username |-> username,
                    hashed_password |-> hashed_password]))

\* db.add(User(...)); db.commit(): the row gets the next id, unless a
\* unique column (email, username) already holds the value
commit(db, email, username, hashed_password) ==
    IF \E i \in 1..Len(db) :
          db[i].email = email \/ db[i].username = username
    THEN Raise("IntegrityError")
    ELSE Ret(Append(db, [id |-> Len(db) + 1, email |-> email,
                         username |-> username,
                         hashed_password |-> hashed_password]))

----------------------------------------------------------------------------
(* main.py: the request handlers.  A response is [status, detail, body].   *)

HTTPException(status_code, detail) ==
    [status |-> status_code, detail |-> detail, body |-> None]

\* what the framework answers when a handler lets an exception escape
InternalServerError == HTTPException(500, "Internal Server Error")

OK(body) == [status |-> 200, detail |-> "", body |-> Some(body)]

\* the body of signup's and login's answer
TokenResponse(token, db_user) ==
    [access_token |-> token, token_type |-> "bearer",
     user |-> [id |-> db_user.id, email |-> db_user.email,
               username |-> db_user.username]]

\* get_current_user
get_current_user(token, t, strict) ==
    LET r == decode_token(token, t, strict)
    IN  IF r.exc # "" THEN r
        ELSE IF r.val = None THEN Raise("HTTPException")
        ELSE Ret(r.val[1])

\* the answer to a request whose get_current_user dependency failed
AuthFailure(u) ==
    IF u.exc = "HTTPException" THEN HTTPException(401, "Invalid token")
    ELSE InternalServerError

\* signup, the check by email: the refusal, or None
signup_query(user, db) ==
    IF first_by_email(db, user.email) # None
    THEN Some(HTTPException(400, "Email already registered"))
    ELSE None

\* signup, from hashing the password on, at time t: [db, resp]
signup_insert(user, salt, db, t) ==
    LET c == commit(db, user.email, user.username,
                    get_password_hash(user.password, salt))
        db_user == c.val[Len(c.val)]
    IN  IF c.exc # ""
        THEN [db |-> db, resp |-> InternalServerError]
        ELSE [db |-> c.val,
              resp |-> OK(TokenResponse(encode_token(db_user.id, t),
                                        db_user))]

\* the same without the check by email
signup_without_query(user, salt, db, t) == signup_insert(user, salt, db, t)

\* signup at time t: [db, resp]
signup(user, salt, db, t) ==
    LET refusal == signup_query(user, db)
    IN  IF refusal # None THEN [db |-> db, resp |-> refusal[1]]
        ELSE signup_insert(user, salt, db, t)

\* login at time t: the response
login(user, db, t) ==
    LET db_user == first_by_email(db, user.email)
    IN  IF db_user = None
           \/ ~verify_password(user.password, db_user[1].hashed_password)
        THEN HTTPException(401, "Invalid credentials")
        ELSE OK(TokenResponse(encode_token(db_user[1].id, t), db_user[1]))

\* get_current_user_info: the response
get_current_user_info(token, db, t, strict) ==
    LET u == get_current_user(token, t, strict)
    IN  IF u.exc # "" THEN AuthFailure(u)
        ELSE LET user == first_by_id(db, u.val)
             IN  IF user = None THEN HTTPException(404, "User not found")
                 ELSE OK([id |-> user[1].id, email |-> user[1].email,
                          username |-> user[1].username])

\* n in decimal, zero-padded to width w (strftime's numeric fields)
RECURSIVE Pad(_, _)
Pad(n, w) == IF w = 0 THEN <<>> ELSE Pad(n \div 10, w - 1) \o <<Digits[(n % 10) + 1]>>

\* datetime.now().strftime("%Y%m%d_%H%M%S"), t minutes after the instant
\* 2024-01-01 00:00:00 at which the process started
strftime(t) ==
    Pad(2024, 4) \o Pad(1, 2) \o Pad(1 + (t \div 1440), 2) \o <<"_">>
    \o Pad((t \div 60) % 24, 2) \o Pad(t % 60, 2) \o Pad(0, 2)

\* strftime at every instant of the clock, computed once
Timestamps == [t \in 0..MaxClock |-> strftime(t)]

\* f"report_{username}_{timestamp}.pdf"; the fixed pieces and the username
\* are one opaque character each
report_filename(username, timestamp) ==
    <<"report_", username, "_">> \o timestamp \o <<".pdf">>

\* f"reports/{filename}"
reports_path(filename) == <<"reports/">> \o filename

\* PDFGenerator.create_report: the artifact is written at file_path, or
\* the write fails and raises
create_report(topic, content, author, file_path, io_ok, fs) ==
    IF io_ok THEN Ret(fs \cup {file_path}) ELSE Raise("OSError")

\* the same answering before anything is written
generate_report_unwritten(token, topic, outcome, io_ok, self, db, fs, t, strict) ==
    LET u == get_current_user(token, t, strict)
        user == first_by_id(db, u.val)
        filename == report_filename(user[1].username, Timestamps[t])
    IN  IF u.exc # "" THEN [fs |-> fs, resp |-> AuthFailure(u)]
        ELSE IF user = None
        THEN [fs |-> fs,
              resp |-> HTTPException(500, "Error generating report")]
        ELSE [fs |-> fs,
              resp |-> OK([message |-> "Report generated successfully",
                           filename |-> filename,
                           download_url |-> <<"/download/">> \o filename])]

\* generate_report at time t: [fs, resp].  The dependency runs before the
\* handler's try block; everything raised inside it becomes a 500.
generate_report(token, topic, outcome, io_ok, self, db, fs, t, strict) ==
    LET u == get_current_user(token, t, strict)
        user == first_by_id(db, u.val)
        ai_content == generate_report_content(self, topic, outcome)
        filename == report_filename(user[1].username, Timestamps[t])
        w == create_report(topic, ai_content.val, user[1].username,
                           reports_path(filename), io_ok, fs)
    IN  IF u.exc # "" THEN [fs |-> fs, resp |-> AuthFailure(u)]
        ELSE IF ai_content.exc # "" \/ user = None \/ w.exc # ""
        THEN [fs |-> fs,
              resp |-> HTTPException(500, "Error generating report")]
        ELSE [fs |-> w.val,
              resp |-> OK([message |-> "Report generated successfully",
                           filename |-> filename,
                           download_url |-> <<"/download/">> \o filename])]

\* download_report at time t: the response
download_report(token, filename, fs, t, strict) ==
    LET u == get_current_user(token, t, strict)
    IN  IF u.exc # "" THEN AuthFailure(u)
        ELSE IF reports_path(filename) \notin fs
        THEN HTTPException(404, "File not found")
        ELSE OK([path |-> reports_path(filename), filename |-> filename,
                 media_type |-> "application/pdf"])

----------------------------------------------------------------------------
(* State.                                                                  *)
(*   svc     the AIService instance: openai_api_key, client                *)
(*   users   the rows of the users table, in insertion order               *)
(*   files   the paths that exist under reports/                           *)
(*   now     the clock, in minutes since the process started               *)
(*   issued  the tokens encode_token has handed out, each with the user id *)
(*           it was issued for and the time of issue                       *)
(*   handles the file names generate_report has returned to clients        *)
(*   procs   the signup requests in flight: position, input, response      *)
(*   last    the request handled last, with its response                   *)

Emails == {"a@x.io", "b@x.io"}
Usernames == {"ann", "bob"}
Passwords == {"pw1", "pw2"}

UserCreates == [email : Emails, username : Usernames, password : Passwords]
UserLogins == [email : Emails, password : Passwords]

NoRequest == [op |-> "none"]
IdleProc == [pc |-> "idle", user |-> None, resp |-> None]

\* the service when OPENAI_API_KEY is not set
UnconfiguredService == [openai_api_key |-> None, client |-> None]

\* the module-level objects of main.py and an empty database; services
\* are the AIService instances the environments considered construct
InitProgram(services) ==
    /\ svc \in services
    /\ users = <<>>
    /\ files = {}
    /\ now = 0
    /\ issued = {}
    /\ handles = {}
    /\ procs = [p \in 1..NProcs |-> IdleProc]
    /\ last = NoRequest

\* the library releases to consider for a token presented at time t: they
\* differ only at the instant exp
Strictness(token, t) == IF token.exp = t THEN BOOLEAN ELSE {TRUE}

\* time passes, up to a last instant
Tick(limit) ==
    /\ now + HalfLife <= limit
    /\ now' = now + HalfLife
    /\ last' = [op |-> "tick"]
    /\ UNCHANGED <<svc, users, files, issued, handles, procs>>

----------------------------------------------------------------------------
(* The content provider alone.                                             *)

GenerateContent ==
    \E topic \in Topics, outcome \in ProviderOutcomes :
        /\ last' = [op |-> "generate_report_content", topic |-> topic,
                    outcome |-> outcome,
                    ret |-> generate_report_content(svc, topic, outcome)]
        /\ UNCHANGED <<svc, users, files, now, issued, handles, procs>>

SpecAI == InitProgram(AIServiceInit) /\ [][GenerateContent]_vars

----------------------------------------------------------------------------
(* The token service alone.                                                *)

AuthUserIds == {1, 10}

EncodeToken ==
    \E user_id \in AuthUserIds :
        LET token == encode_token(user_id, now)
            grant == [user_id |-> user_id, token |-> token, at |-> now]
        IN  /\ grant \in issued \/ Cardinality(issued) < MaxIssued
            /\ issued' = issued \cup {grant}
            /\ last' = [op |-> "encode_token", user_id |-> user_id,
                        token |-> token]
            /\ UNCHANGED <<svc, users, files, now, handles, procs>>

DecodeToken ==
    \E token \in TokenInputs \cup {g.token : g \in issued} :
      \E strict \in Strictness(token, now) :
        /\ last' = [op |-> "decode_token", token |-> token,
                    ret |-> decode_token(token, now, strict)]
        /\ UNCHANGED <<svc, users, files, now, issued, handles, procs>>

TickAuth == Tick(MaxClock)

SpecAuth ==
    InitProgram({UnconfiguredService})
    /\ [][TickAuth \/ EncodeToken \/ DecodeToken]_vars

----------------------------------------------------------------------------
(* The account handlers.                                                   *)

Signup(user) ==
    \E salt \in Salts :
        LET r == signup(user, salt, users, now)
        IN  /\ users' = r.db
            /\ last' = [op |-> "signup", req |-> user, resp |-> r.resp]
            /\ UNCHANGED <<svc, files, now, issued, handles, procs>>

Login(user) ==
    /\ last' = [op |-> "login", req |-> user,
                resp |-> login(user, users, now)]
    /\ UNCHANGED <<svc, users, files, now, issued, handles, procs>>

Me(token) ==
    \E strict \in Strictness(token, now) :
        /\ last' = [op |-> "me", req |-> token,
                    resp |-> get_current_user_info(token, users, now, strict)]
        /\ UNCHANGED <<svc, users, files, now, issued, handles, procs>>

SignupAny == \E user \in UserCreates : Signup(user)
LoginAny == \E user \in UserLogins : Login(user)
MeAny == \E token \in TokenInputs : Me(token)

SpecAccounts ==
    InitProgram({UnconfiguredService})
    /\ [][TickAuth \/ SignupAny \/ LoginAny \/ MeAny]_vars

----------------------------------------------------------------------------
(* The report handlers.                                                    *)

\* the instants of the clock while reports are generated
ReportClockValues == {k * HalfLife : k \in 0..MaxReportTicks}

\* the tokens presented to the report handlers: no JWT, a JWT signed with
\* another secret, and JWTs signed with the process's secret for user 1,
\* user 2 and a subject that is no number
ReportTokens ==
    {MalformedToken,
     [encode_token(1, 0) EXCEPT !.key = "other-secret"],
     [encode_token(1, 0) EXCEPT !.sub = Some(<<"a">>)]}
    \cup {encode_token(id, t0) : id \in {1, 2}, t0 \in ReportClockValues}

\* the accounts created while reports are generated
ReportUserCreates ==
    {[email |-> "a@x.io", username |-> "ann", password |-> "pw1"],
     [email |-> "b@x.io", username |-> "bob", password |-> "pw1"]}

ReportTopics == {<<"Q", "C">>}

\* what the provider does while reports are generated
ReportOutcomes ==
    {o \in ProviderOutcomes :
        o.kind = "raises" \/ (o.kind = "content_str" /\ o.content = <<"x">>)}

\* the file names asked of download
DownloadNames ==
    {report_filename(u, Timestamps[t]) :
        u \in Usernames, t \in ReportClockValues}
    \cup {<<"missing.pdf">>}

GenerateReport ==
    \E token \in ReportTokens, topic \in ReportTopics,
       outcome \in ReportOutcomes, io_ok \in BOOLEAN :
      \E strict \in Strictness(token, now) :
        LET r == generate_report(token, topic, outcome, io_ok, svc, users,
                                 files, now, strict)
        IN  /\ Cardinality(r.fs) <= MaxFiles
            /\ files' = r.fs
            /\ handles' = IF r.resp.status = 200
                          THEN handles \cup {r.resp.body[1].filename}
                          ELSE handles
            /\ last' = [op |-> "generate_report",
                        req |-> [token |-> token, topic |-> topic],
                        io_ok |-> io_ok, resp |-> r.resp]
            /\ UNCHANGED <<svc, users, now, issued, procs>>

DownloadReport ==
    \E token \in ReportTokens, filename \in DownloadNames :
      \E strict \in Strictness(token, now) :
        /\ last' = [op |-> "download_report",
                    req |-> [token |-> token, filename |-> filename],
                    resp |-> download_report(token, filename, files, now,
                                             strict)]
        /\ UNCHANGED <<svc, users, files, now, issued, handles, procs>>

SignupForReports == \E user \in ReportUserCreates : Signup(user)

TickReports == Tick(MaxReportTicks * HalfLife)

\* the services while reports are generated: without a key, and with a
\* key and a client
ReportServices ==
    {s \in AIServiceInit : (s.client = None) = (s.openai_api_key = None)}

SpecReports ==
    InitProgram(ReportServices)
    /\ [][TickReports \/ SignupForReports \/ GenerateReport
                      \/ DownloadReport]_vars

----------------------------------------------------------------------------
(* Concurrent signups: each request runs its check by email and its        *)
(* insert-and-commit as two steps, interleaved with the other requests.    *)

RaceUserCreates == {u \in UserCreates : u.password = "pw1"}

\* the request arrives
SignupReceive(p) ==
    \E user \in RaceUserCreates :
        /\ procs[p].pc = "idle"
        /\ procs' = [procs EXCEPT ![p] =
                        [pc |-> "query", user |-> Some(user), resp |-> None]]
        /\ UNCHANGED <<svc, users, files, now, issued, handles, last>>

\* main.py, signup: the query by email and the refusal
SignupQuery(p) ==
    /\ procs[p].pc = "query"
    /\ LET refusal == signup_query(procs[p].user[1], users)
       IN  procs' = [procs EXCEPT ![p] =
                        IF refusal # None
                        THEN [@ EXCEPT !.pc = "done", !.resp = refusal]
                        ELSE [@ EXCEPT !.pc = "insert"]]
    /\ UNCHANGED <<svc, users, files, now, issued, handles, last>>

\* main.py, signup: hash, add, commit, refresh, token, answer
SignupInsert(p) ==
    /\ procs[p].pc = "insert"
    /\ \E salt \in Salts :
        LET r == signup_insert(procs[p].user[1], salt, users, now)
        IN  /\ users' = r.db
            /\ procs' = [procs EXCEPT ![p] =
                            [@ EXCEPT !.pc = "done", !.resp = Some(r.resp)]]
    /\ UNCHANGED <<svc, files, now, issued, handles, last>>

SignupStep == \E p \in 1..NProcs :
    SignupReceive(p) \/ SignupQuery(p) \/ SignupInsert(p)

SpecRace == InitProgram({UnconfiguredService}) /\ [][SignupStep]_vars

----------------------------------------------------------------------------
(* Properties.                                                             *)

\* the provider gave no usable text: no key, no client, the call raised, or
\* the response held no content
ProviderFailed(self, outcome) ==
    \/ ~Truthy(self.openai_api_key)
    \/ self.client = None
    \/ outcome.kind \in {"raises", "no_choices", "content_none"}
    \/ outcome.kind = "content_str" /\ outcome.content = <<>>

\* C1: generate_report_content always returns, and whenever the provider
\* failed (no key, no client, the call raised, no content) what it returns
\* is the fallback text of the topic.
C1_FallbackOnProviderFailure ==
    last.op = "generate_report_content" =>
        /\ last.ret.exc = ""
        /\ ProviderFailed(svc, last.outcome) =>
              last.ret.val = _generate_demo_content(last.topic)

\* the API call raised, with key and client present, and the fallback text
\* of a non-empty topic came back
C1_Witness ==
    /\ last.op = "generate_report_content"
    /\ Truthy(svc.openai_api_key) /\ svc.client # None
    /\ last.outcome.kind = "raises"
    /\ last.topic # <<>>
    /\ last.ret = Ret(_generate_demo_content(last.topic))

\* C2: when the provider call succeeds the result is the provider text
\* without leading and trailing whitespace, and the fallback text when that
\* is empty; so the result is never empty.
C2_TrimmedOrFallback ==
    (/\ last.op = "generate_report_content"
     /\ Truthy(svc.openai_api_key) /\ svc.client # None
     /\ last.outcome.kind = "content_str") =>
        /\ last.ret.exc = ""
        /\ last.ret.val # <<>>
        /\ last.ret.val =
              IF strip(last.outcome.content) = <<>>
              THEN _generate_demo_content(last.topic)
              ELSE strip(last.outcome.content)

\* C3: a token issued for user U decodes to U before issue time + 30
\* minutes and to None after it, a token signed with another secret decodes
\* to None, and no issued token decodes to another id than its own.
C3_TokenRoundTrip ==
    last.op = "decode_token" =>
        /\ \A g \in issued :
              g.token = last.token =>
                  /\ now < g.at + 30 => last.ret = Ret(Some(g.user_id))
                  /\ now > g.at + 30 => last.ret = Ret(None)
                  /\ (last.ret.exc = "" /\ last.ret.val # None) =>
                        last.ret.val = Some(g.user_id)
        /\ (last.token.wellformed /\ last.token.key # SECRET_KEY) =>
              last.ret = Ret(None)

\* the token of user 10 is accepted some time after its issue
C3_Witness ==
    /\ last.op = "decode_token"
    /\ \E g \in issued :
          /\ g.token = last.token
          /\ g.user_id = 10
          /\ g.at < now /\ now < g.at + 30
          /\ last.ret = Ret(Some(10))

\* C4: decode_token never raises: for every token it returns a user id or
\* None.
C4_DecodeNeverRaises ==
    last.op = "decode_token" => last.ret.exc = ""

\* the token is one every release of the library accepts at time t, and
\* its subject is a decimal numeral
SurelyValid(token, t) ==
    /\ token.wellformed /\ token.key = SECRET_KEY /\ t < token.exp
    /\ token.sub # None /\ IsDigits(token.sub[1])

\* the token identifies no user at time t for any release of the library
SurelyInvalid(token, t) ==
    \/ ~token.wellformed
    \/ token.key # SECRET_KEY
    \/ token.exp < t
    \/ token.sub = None
    \/ StrToInt(token.sub[1]).exc # ""

\* report_<username>_<YYYYMMDD_HHMMSS>.pdf
HasReportShape(filename, username) ==
    /\ Len(filename) = 19
    /\ filename[1] = "report_" /\ filename[2] = username
    /\ filename[3] = "_" /\ filename[12] = "_" /\ filename[19] = ".pdf"
    /\ \A i \in (4..11) \cup (13..18) : filename[i] \in DigitChars

\* C5: generate_report with a valid token of an existing user, when the
\* rendering succeeds, answers 200 with a file name
\* report_<username>_<YYYYMMDD_HHMMSS>.pdf and the path /download/<name>,
\* the file being written; and a download of a name generate_report has
\* returned, with a valid token, answers 200 ever after.
C5_HandleThenDownload ==
    /\ (/\ last.op = "generate_report"
        /\ SurelyValid(last.req.token, now)
        /\ StrToInt(last.req.token.sub[1]).val \in 1..Len(users)
        /\ last.io_ok) =>
          /\ last.resp.status = 200
          /\ LET body == last.resp.body[1]
                 user == users[StrToInt(last.req.token.sub[1]).val]
             IN  /\ HasReportShape(body.filename, user.username)
                 /\ body.download_url = <<"/download/">> \o body.filename
                 /\ body.filename \in handles
                 /\ <<"reports/">> \o body.filename \in files
    /\ (/\ last.op = "download_report"
        /\ last.req.filename \in handles
        /\ SurelyValid(last.req.token, now)) =>
          /\ last.resp.status = 200
          /\ last.resp.body[1].filename = last.req.filename

\* a report generated at time 0 is downloaded at a later time
C5_Witness ==
    /\ last.op = "download_report"
    /\ now > 0
    /\ last.req.filename \in handles
    /\ SubSeq(last.req.filename, 4, 18) = Timestamps[0]
    /\ last.resp.status = 200

\* C6: download answers 401 for every invalid token and, for every valid
\* token, 200 if the file exists and 404 if it does not, whoever the token
\* identifies.
C6_DownloadByValidityAndExistence ==
    last.op = "download_report" =>
        /\ SurelyInvalid(last.req.token, now) => last.resp.status = 401
        /\ SurelyValid(last.req.token, now) =>
              last.resp.status =
                  IF <<"reports/">> \o last.req.filename \in files
                  THEN 200 ELSE 404

EmailPresent(db, email) == \E i \in 1..Len(db) : db[i].email = email
UsernamePresent(db, username) ==
    \E i \in 1..Len(db) : db[i].username = username

\* C7: a signup whose email is already in the users table is answered 400
\* 'Email already registered', without a token, and leaves the table as it
\* was.
C7_DuplicateEmailRefused ==
    [][(last'.op = "signup" /\ EmailPresent(users, last'.req.email)) =>
          /\ last'.resp.status = 400
          /\ last'.resp.detail = "Email already registered"
          /\ last'.resp.body = None
          /\ users' = users]_vars

\* a signup with a known email and an unknown username was refused
C7_Witness ==
    /\ last.op = "signup"
    /\ EmailPresent(users, last.req.email)
    /\ ~UsernamePresent(users, last.req.username)
    /\ last.resp.status = 400

\* the password a stored hash was made of
HashedPassword(hashed_password) == hashed_password[3]

\* C8: a login with a known email and a password that is not the one of the
\* stored hash is answered 401 without a token and changes nothing; a login
\* answered 200 had a known email and its password, and its token carries
\* the id of that user.
C8_LoginNeedsPassword ==
    [][last'.op = "login" =>
          LET rows == {i \in 1..Len(users) :
                          users[i].email = last'.req.email}
          IN  /\ (/\ rows # {}
                  /\ \A i \in rows :
                        HashedPassword(users[i].hashed_password)
                            # last'.req.password) =>
                    /\ last'.resp.status = 401
                    /\ last'.resp.body = None
                    /\ UNCHANGED <<svc, users, files, now, handles>>
              /\ last'.resp.status = 200 =>
                    \E i \in rows :
                        /\ HashedPassword(users[i].hashed_password)
                              = last'.req.password
                        /\ last'.resp.body[1].user.id = users[i].id
                        /\ last'.resp.body[1].access_token.sub
                              = Some(IntToStr(users[i].id))
                        /\ last'.resp.body[1].access_token.key = SECRET_KEY]_vars

\* a login with the email of a user and another password was refused
C8_Witness ==
    /\ last.op = "login"
    /\ EmailPresent(users, last.req.email)
    /\ last.resp.status = 401

\* the requests that were answered with a token
Winners == {p \in 1..NProcs :
               procs[p].pc = "done" /\ procs[p].resp[1].status = 200}

\* C9: whatever the interleaving of the signups, no two rows of the users
\* table share an email or a username, every row was created by exactly one
\* request that received a token, and every other finished request was
\* refused.
C9_NoDuplicateRows ==
    /\ \A i, j \in 1..Len(users) :
          i # j => /\ users[i].email # users[j].email
                   /\ users[i].username # users[j].username
    /\ \A p, q \in Winners :
          p # q => /\ procs[p].user[1].email # procs[q].user[1].email
                   /\ procs[p].user[1].username # procs[q].user[1].username
    /\ Cardinality(Winners) = Len(users)
    /\ \A p \in 1..NProcs :
          (procs[p].pc = "done" /\ p \notin Winners) =>
              /\ procs[p].resp[1].status \in {400, 500}
              /\ procs[p].resp[1].body = None

\* two signups with the same email both passed the check by email; one
\* created the row and the commit of the other was refused
C9_Witness ==
    \E p, q \in 1..NProcs :
        /\ p \in Winners
        /\ procs[q].pc = "done"
        /\ procs[q].resp[1].status = 500
        /\ procs[q].user[1].email = procs[p].user[1].email

\* C10: a signup whose username is already in the users table, with an
\* email that is not, is answered like a duplicate email (400) and creates
\* no row.
C10_DuplicateUsernameRefused ==
    [][(/\ last'.op = "signup"
        /\ UsernamePresent(users, last'.req.username)
        /\ ~EmailPresent(users, last'.req.email)) =>
          /\ last'.resp.status = 400
          /\ users' = users]_vars

====
